---- MODULE Spec2Model ----
(***************************************************************************)
(* Model of src/TDC.py (class TravelDayCounter).                           *)
(*                                                                         *)
(* Dates are day ordinals (date.toordinal()); the calendar is abstracted   *)
(* to years of DaysPerYear days, so Year(d) is the year component that the *)
(* source obtains by splitting the 'yyyy-mm-dd' text (entry_y, depart_y)   *)
(* or from date.today().year.  delta.days is the difference of ordinals.   *)
(*                                                                         *)
(* A Python dict whose iteration order matters (country2days, fed to       *)
(* sorted()) is a sequence of [k, v] entries in insertion order; the other *)
(* dicts are functions.  The wall clock is the variable today; it can      *)
(* advance between any two steps of the construction.                      *)
(*                                                                         *)
(* Rounded quotients (percentages, year equivalents) are integers in       *)
(* tenths, rounded half to even as round() does; the binary representation *)
(* error of the float quotient is not modelled.  Config values that only   *)
(* select branches of output() (track_home, table_style) are chosen when   *)
(* output() runs.                                                          *)
(***************************************************************************)
EXTENDS Integers, Sequences, FiniteSets

\* ---------------------------------------------------------------- bounds
MaxRecords == 3      \* longest record sequence (rows of the CSV source)
MaxDate == 2         \* record dates are the ordinals 0..MaxDate
MaxToday == 5        \* the wall clock shows an ordinal in 0..MaxToday
DaysPerYear == 2     \* length of a calendar year of the abstract calendar
MaxDays == 3         \* day totals of a directly drawn table are 0..MaxDays
MaxThreshold == 3    \* thresholds passed to shortened_table are 0..MaxThreshold

Countries == {"A", "B"}
HomeCodes == Countries \cup {"H"}
TableCountries == {"A", "B", "C", "D"}

VARIABLES
    records,              \* rows of the source: <<[date, country], ...>>
    home_code,            \* config: self.home_code
    today,                \* the wall clock: what date.today() returns now
    pc,                   \* position of the run
    i,                    \* loop index of create_visit_history (1-based)
    depart_y,             \* local depart_y of the last executed iteration
    departure_date,       \* local departure_date of the last executed iteration
    country2days,
    country2firstvisit,
    country2lastvisit,
    visityear2countries,
    country2percent,
    country2rank,
    num_visited_countries,
    days_home,
    years_home,
    days_abroad,
    years_abroad,
    residency_period,
    threshold,            \* argument of the last shortened_table call
    shortened,            \* result of the last shortened_table call
    exception             \* the exception that ended the run, "" if none

vars == <<records, home_code, today, pc, i, depart_y, departure_date,
          country2days, country2firstvisit, country2lastvisit,
          visityear2countries, country2percent, country2rank,
          num_visited_countries, days_home, years_home, days_abroad,
          years_abroad, residency_period, threshold, shortened, exception>>

\* ------------------------------------------------------------ pure helpers
\* config: self.residency_begin, as a day ordinal
residency_begin == 0

\* default of shortened_table's threshold parameter
DefaultThreshold == 7

\* the year component of a date
Year(d) == d \div DaysPerYear

\* round(n/d) to the nearest integer, ties to even (Python's round), d # 0
RoundDiv(n, d) ==
    LET nn == IF d < 0 THEN 0 - n ELSE n
        dd == IF d < 0 THEN 0 - d ELSE d
        q == nn \div dd
        r == nn - q * dd
    IN  IF 2 * r < dd THEN q
        ELSE IF 2 * r > dd THEN q + 1
        ELSE IF q % 2 = 0 THEN q ELSE q + 1

\* dict helpers (insertion-ordered dict as a sequence of [k, v])
Keys(d) == {d[j].k : j \in DOMAIN d}

Get(d, key) == d[CHOOSE j \in DOMAIN d : d[j].k = key].v

RECURSIVE SumValues(_)
SumValues(d) ==
    IF d = <<>> THEN 0
    ELSE d[Len(d)].v + SumValues(SubSeq(d, 1, Len(d) - 1))

\* country2days[country] = x (faulty variant of AddDays: plain assignment)
SetDays(d, key, x) ==
    IF key \in Keys(d)
    THEN [j \in DOMAIN d |-> IF d[j].k = key THEN [k |-> key, v |-> x] ELSE d[j]]
    ELSE Append(d, [k |-> key, v |-> x])

\* country2days[country] += x on a defaultdict(int)
AddDays(d, key, x) ==
    IF key \in Keys(d)
    THEN [j \in DOMAIN d |->
            IF d[j].k = key THEN [k |-> key, v |-> d[j].v + x] ELSE d[j]]
    ELSE Append(d, [k |-> key, v |-> 0 + x])

\* d[key] = x on a plain dict modelled as a function
Put(f, key, x) == [c \in DOMAIN f \cup {key} |-> IF c = key THEN x ELSE f[c]]

\* if country not in visityear2countries[y]: visityear2countries[y].append(country)
\* (the lookup on the defaultdict(list) creates the year's list)
AddVisitYear(v2c, y, country) ==
    LET lst == IF y \in DOMAIN v2c THEN v2c[y] ELSE <<>>
    IN  IF \E j \in DOMAIN lst : lst[j] = country
        THEN Put(v2c, y, lst)
        ELSE Put(v2c, y, Append(lst, country))

\* sorted(country2days.items(), key=lambda x: x[1], reverse=True): stable, so
\* entries with equal days keep their insertion order
RECURSIVE SortedDesc(_)
SortedDesc(d) ==
    IF d = <<>> THEN <<>>
    ELSE LET s == SortedDesc(SubSeq(d, 1, Len(d) - 1))
             e == d[Len(d)]
             p == Cardinality({j \in DOMAIN s : s[j].v >= e.v})
         IN  SubSeq(s, 1, p) \o <<e>> \o SubSeq(s, p + 1, Len(s))

\* current_rank+1 (faulty variant of NextRank: dense ranking)
NextRankDense(current_rank, rank_diff) == current_rank + 1

\* current_rank = current_rank+rank_diff+1
NextRank(current_rank, rank_diff) == current_rank + rank_diff + 1

\* the loop of create_country2rank from position j of sorted_c2d on;
\* current_max_days is [inf |-> TRUE] for float('inf'), else [inf |-> FALSE, v |-> days]
RECURSIVE RankLoop(_, _, _, _, _, _)
RankLoop(s, j, current_rank, current_max_days, rank_diff, c2r) ==
    IF j > Len(s) THEN c2r
    ELSE LET country == s[j].k
             days == s[j].v
         IN  IF current_max_days.inf \/ days < current_max_days.v
             THEN LET r == NextRank(current_rank, rank_diff)
                  IN  RankLoop(s, j + 1, r, [inf |-> FALSE, v |-> days], 0,
                               Put(c2r, country, r))
             ELSE RankLoop(s, j + 1, current_rank, current_max_days,
                           rank_diff + 1, Put(c2r, country, current_rank))

create_country2rank(c2d) ==
    RankLoop(SortedDesc(c2d), 1, 0, [inf |-> TRUE, v |-> 0], 0, <<>>)

\* create_country2percent divides by total_days once per entry of country2days
PercentRaises(c2d) == c2d # <<>> /\ SumValues(c2d) = 0

\* the percentage, in tenths of a percent: round((days/total_days)*100, 1)
create_country2percent(c2d) ==
    [c \in Keys(c2d) |-> RoundDiv(Get(c2d, c) * 1000, SumValues(c2d))]

\* self.country2days[self.home_code] on the defaultdict(int): a missing key is
\* inserted with the value 0
LookupDefault(d, key) ==
    IF key \in Keys(d) THEN d ELSE Append(d, [k |-> key, v |-> 0])

\* sum of all days (faulty variant of DaysAbroad: home not left out)
DaysAll(c2d, home) == SumValues(c2d)

\* sum(days for country, days in country2days.items() if country != home_code)
DaysAbroad(c2d, home) == SumValues(SelectSeq(c2d, LAMBDA e : e.k # home))

\* round(days/365, 1), in tenths of a year
YearsOf(days) == RoundDiv(days * 10, 365)

\* day_count(start_date), read at clock value now
day_count(start_date, now) == now - start_date

\* day > threshold (faulty variant of Kept: a total equal to the threshold is dropped)
KeptStrict(day, thresh) == day > thresh

\* if day >= threshold, the filter of shortened_c2d
Kept(day, thresh) == day >= thresh

\* if day < threshold, the filter of rest_days
Rest(day, thresh) == day < thresh

\* rest_percent divides by sum(country2days.values())
ShortenedRaises(c2d) == SumValues(c2d) = 0

shortened_table(c2d, thresh) ==
    LET rest_days == SumValues(SelectSeq(c2d, LAMBDA e : Rest(e.v, thresh)))
    IN  [shortened_c2d |-> SelectSeq(c2d, LAMBDA e : Kept(e.v, thresh)),
         rest_days |-> rest_days,
         rest_percent |-> RoundDiv(rest_days * 1000, SumValues(c2d))]

NoShortened == [shortened_c2d |-> <<>>, rest_days |-> 0, rest_percent |-> 0]

\* ------------------------------------------------------------ the pipeline
N == Len(records)

RecordSet == [date : 0..MaxDate, country : Countries]

Unset ==
    /\ i = 1
    /\ depart_y = -1
    /\ departure_date = -1
    /\ country2firstvisit = <<>>
    /\ country2lastvisit = <<>>
    /\ visityear2countries = <<>>
    /\ country2percent = <<>>
    /\ country2rank = <<>>
    /\ num_visited_countries = 0
    /\ days_home = 0
    /\ years_home = 0
    /\ days_abroad = 0
    /\ years_abroad = 0
    /\ residency_period = 0
    /\ threshold = DefaultThreshold
    /\ shortened = NoShortened
    /\ exception = ""

\* the state on entry to create_visit_history: config loaded, tables empty
Init ==
    /\ records \in UNION {[1..n -> RecordSet] : n \in 0..MaxRecords}
    /\ home_code \in HomeCodes
    /\ today \in 0..MaxToday
    /\ pc = "build"
    /\ country2days = <<>>
    /\ Unset

\* the body of the loop from delta = ... on, for one record
VisitBody(country, entry_date, entry_y, dep_date, dep_y) ==
    /\ country2days' = AddDays(country2days, country, dep_date - entry_date)
    /\ country2lastvisit' = Put(country2lastvisit, country, dep_date)
    /\ country2firstvisit' =
          IF country \notin DOMAIN country2firstvisit
          THEN Put(country2firstvisit, country, entry_date)
          ELSE country2firstvisit
    /\ visityear2countries' =
          AddVisitYear(AddVisitYear(visityear2countries, entry_y, country),
                       dep_y, country)

\* one iteration for a record that has a successor: df['DATE'][i+1] exists
BuildStep ==
    /\ pc = "build"
    /\ i < N
    /\ depart_y' = Year(records[i + 1].date)
    /\ departure_date' = records[i + 1].date
    /\ VisitBody(records[i].country, records[i].date, Year(records[i].date),
                 departure_date', depart_y')
    /\ i' = i + 1
    /\ UNCHANGED <<records, home_code, today, pc, country2percent, country2rank,
                   num_visited_countries, days_home, years_home, days_abroad,
                   years_abroad, residency_period, threshold, shortened, exception>>

\* last record, KeyError handler, first clock read: depart_y = str(date.today().year)
ReadTodayYear ==
    /\ pc = "build"
    /\ i = N
    /\ depart_y' = Year(today)
    /\ pc' = "read_today"
    /\ UNCHANGED <<records, home_code, today, i, departure_date, country2days,
                   country2firstvisit, country2lastvisit, visityear2countries,
                   country2percent, country2rank, num_visited_countries,
                   days_home, years_home, days_abroad, years_abroad,
                   residency_period, threshold, shortened, exception>>

\* last record, second clock read: departure_date = date.today(), then the body
ReadTodayDate ==
    /\ pc = "read_today"
    /\ departure_date' = today
    /\ VisitBody(records[i].country, records[i].date, Year(records[i].date),
                 departure_date', depart_y)
    /\ i' = i + 1
    /\ pc' = "build"
    /\ UNCHANGED <<records, home_code, today, depart_y, country2percent,
                   country2rank, num_visited_countries, days_home, years_home,
                   days_abroad, years_abroad, residency_period, threshold, shortened,
                   exception>>

\* the rest of __init__ once the loop has ended: percentages, ranks, the
\* home/abroad rollup and the residency period (third clock read)
Derive ==
    /\ pc = "build"
    /\ i > N
    /\ IF PercentRaises(country2days)
       THEN /\ pc' = "init_raised"
            /\ exception' = "ZeroDivisionError"
            /\ UNCHANGED <<country2days, country2percent, country2rank,
                           num_visited_countries, days_home, years_home,
                           days_abroad, years_abroad, residency_period>>
       ELSE /\ country2percent' = create_country2percent(country2days)
            /\ country2rank' = create_country2rank(country2days)
            /\ num_visited_countries' = Len(country2days)
            /\ country2days' = LookupDefault(country2days, home_code)
            /\ days_home' = Get(country2days', home_code)
            /\ years_home' = YearsOf(days_home')
            /\ days_abroad' = DaysAbroad(country2days', home_code)
            /\ years_abroad' = YearsOf(days_abroad')
            /\ residency_period' = day_count(residency_begin, today)
            /\ pc' = "constructed"
            /\ UNCHANGED exception
    /\ UNCHANGED <<records, home_code, today, i, depart_y, departure_date,
                   country2firstvisit, country2lastvisit, visityear2countries,
                   threshold, shortened>>

\* print_in_n_out_stats divides by days_home + days_abroad
InNOutRaises == days_home + days_abroad = 0

\* print_table, style 'full': a row of country2days without a percentage
FullTableRaises == \E c \in Keys(country2days) : c \notin DOMAIN country2percent

\* print_table, style 'short': a kept row without a percentage
ShortTableRaises ==
    \E c \in Keys(shortened_table(country2days, DefaultThreshold).shortened_c2d) :
        c \notin DOMAIN country2percent

\* output(): header, home/abroad stats if track_home, residency stats, table, report
Output ==
    /\ pc = "constructed"
    /\ \E track_home \in BOOLEAN, table_style \in {"full", "short"} :
          IF track_home /\ InNOutRaises
          THEN /\ pc' = "output_raised"
               /\ exception' = "ZeroDivisionError"
               /\ UNCHANGED <<threshold, shortened>>
          ELSE IF table_style = "full"
          THEN /\ pc' = IF FullTableRaises THEN "output_raised" ELSE "done"
               /\ exception' = IF FullTableRaises THEN "KeyError" ELSE ""
               /\ UNCHANGED <<threshold, shortened>>
          ELSE IF ShortenedRaises(country2days)
          THEN /\ pc' = "output_raised"
               /\ exception' = "ZeroDivisionError"
               /\ threshold' = DefaultThreshold
               /\ UNCHANGED shortened
          ELSE /\ threshold' = DefaultThreshold
               /\ shortened' = shortened_table(country2days, DefaultThreshold)
               /\ pc' = IF ShortTableRaises THEN "output_raised" ELSE "done"
               /\ exception' = IF ShortTableRaises THEN "KeyError" ELSE ""
    /\ UNCHANGED <<records, home_code, today, i, depart_y, departure_date,
                   country2days, country2firstvisit, country2lastvisit,
                   visityear2countries, country2percent, country2rank,
                   num_visited_countries, days_home, years_home, days_abroad,
                   years_abroad, residency_period>>

\* midnight passes while the aggregator is being constructed
Tick ==
    /\ pc \in {"build", "read_today"}
    /\ today < MaxToday
    /\ today' = today + 1
    /\ UNCHANGED <<records, home_code, pc, i, depart_y, departure_date,
                   country2days, country2firstvisit, country2lastvisit,
                   visityear2countries, country2percent, country2rank,
                   num_visited_countries, days_home, years_home, days_abroad,
                   years_abroad, residency_period, threshold, shortened, exception>>

Next ==
    \/ BuildStep
    \/ ReadTodayYear
    \/ ReadTodayDate
    \/ Derive
    \/ Output
    \/ Tick

Spec == Init /\ [][Next]_vars

\* ------------------------------------------- the table functions on their own
\* day-total tables: distinct countries in any insertion order, totals that a
\* run can produce (a non-ascending source gives negative totals)
Tables ==
    {t \in UNION {[1..n -> [k : TableCountries, v : (0 - 1)..MaxDays]] :
                     n \in 0..Cardinality(TableCountries)} :
        \A a, b \in DOMAIN t : a # b => t[a].k # t[b].k}

TableInit ==
    /\ records = <<>>
    /\ home_code = "H"
    /\ today = 0
    /\ pc = "table"
    /\ country2days \in Tables
    /\ Unset

CallCreateCountry2Percent ==
    /\ pc = "table"
    /\ IF PercentRaises(country2days)
       THEN /\ pc' = "init_raised"
            /\ exception' = "ZeroDivisionError"
            /\ UNCHANGED country2percent
       ELSE /\ country2percent' = create_country2percent(country2days)
            /\ pc' = "percented"
            /\ UNCHANGED exception
    /\ UNCHANGED <<records, home_code, today, i, depart_y, departure_date,
                   country2days, country2firstvisit, country2lastvisit,
                   visityear2countries, country2rank, num_visited_countries,
                   days_home, years_home, days_abroad, years_abroad,
                   residency_period, threshold, shortened>>

CallCreateCountry2Rank ==
    /\ pc = "table"
    /\ country2rank' = create_country2rank(country2days)
    /\ pc' = "ranked"
    /\ UNCHANGED <<records, home_code, today, i, depart_y, departure_date,
                   country2days, country2firstvisit, country2lastvisit,
                   visityear2countries, country2percent, num_visited_countries,
                   days_home, years_home, days_abroad, years_abroad,
                   residency_period, threshold, shortened, exception>>

CallShortenedTable ==
    /\ pc = "table"
    /\ \E t \in 0..MaxThreshold :
          /\ threshold' = t
          /\ IF ShortenedRaises(country2days)
             THEN /\ pc' = "output_raised"
                  /\ exception' = "ZeroDivisionError"
                  /\ UNCHANGED shortened
             ELSE /\ shortened' = shortened_table(country2days, t)
                  /\ pc' = "shortened"
                  /\ UNCHANGED exception
    /\ UNCHANGED <<records, home_code, today, i, depart_y, departure_date,
                   country2days, country2firstvisit, country2lastvisit,
                   visityear2countries, country2percent, country2rank,
                   num_visited_countries, days_home, years_home, days_abroad,
                   years_abroad, residency_period>>

TableNext ==
    \/ CallCreateCountry2Percent
    \/ CallCreateCountry2Rank
    \/ CallShortenedTable

SpecTable == TableInit /\ [][TableNext]_vars

\* ------------------------------------------------------------- properties
\* the loop of create_visit_history has processed every record
LoopDone ==
    \/ pc = "build" /\ i > N
    \/ pc \in {"init_raised", "constructed", "done", "output_raised"}

\* __init__ has returned
Constructed == pc \in {"constructed", "done", "output_raised"}

RecordedCountries == {records[j].country : j \in 1..N}

\* departure date of record j once the loop is done: the next record's date,
\* or the date read from the clock for the last record
Departure(j) == IF j < N THEN records[j + 1].date ELSE departure_date

\* sum of (departure - entry) over the records 1..j that name country c
RECURSIVE IntervalSum(_, _)
IntervalSum(c, j) ==
    IF j = 0 THEN 0
    ELSE (IF records[j].country = c THEN Departure(j) - records[j].date ELSE 0)
         + IntervalSum(c, j - 1)

\* sum of the totals of the countries in S
RECURSIVE SumOf(_, _)
SumOf(d, S) ==
    IF S = {} THEN 0
    ELSE LET c == CHOOSE x \in S : TRUE
         IN  Get(d, c) + SumOf(d, S \ {c})

Ascending == \A j \in 1..(N - 1) : records[j].date <= records[j + 1].date

NegativeInterval == \E j \in 1..N : Departure(j) < records[j].date

InYearList(c, y) ==
    /\ y \in DOMAIN visityear2countries
    /\ \E j \in DOMAIN visityear2countries[y] : visityear2countries[y][j] = c

\* C1: after construction days_home + days_abroad equals the sum of all
\* per-country day totals; for a home code that never appears in the records
\* days_home = 0 and days_abroad is the sum of all per-country day totals.
C1_HomeAbroadSplit ==
    Constructed =>
        /\ days_home + days_abroad = SumValues(country2days)
        /\ days_home + days_abroad = SumOf(country2days, Keys(country2days))
        /\ home_code \notin RecordedCountries =>
              /\ days_home = 0
              /\ days_abroad = SumOf(country2days, RecordedCountries)

C1_Witness ==
    /\ Constructed
    /\ N >= 2
    /\ home_code \notin RecordedCountries
    /\ days_home = 0
    /\ days_abroad > 0

\* C2: create_country2rank gives every country of the table a positive rank
\* equal to 1 plus the number of countries with strictly more days (equal
\* totals share a rank, the most days get rank 1, a tie group is skipped).
C2_CompetitionRank ==
    pc = "ranked" =>
        /\ DOMAIN country2rank = Keys(country2days)
        /\ \A c \in Keys(country2days) :
              /\ country2rank[c] >= 1
              /\ country2rank[c] = 1 + Cardinality(
                    {x \in Keys(country2days) :
                        Get(country2days, x) > Get(country2days, c)})

C2_Witness ==
    /\ pc = "ranked"
    /\ \E a, b, c, d \in Keys(country2days) :
          /\ a # b
          /\ country2rank[d] = 1
          /\ country2rank[a] = 2
          /\ country2rank[b] = 2
          /\ country2rank[c] = 4

\* C3: for N >= 1 records, every country's total is the sum of
\* (departure - entry) over exactly the records that name it, the departure of
\* the last record being the date read from the clock; each interval counts
\* once, so all totals add up to (that date - date of the first record).
C3_TotalsAreIntervalSums ==
    (LoopDone /\ N >= 1) =>
        /\ RecordedCountries \subseteq Keys(country2days)
        /\ \A c \in Keys(country2days) : Get(country2days, c) = IntervalSum(c, N)
        /\ SumValues(country2days) = departure_date - records[1].date

C3_Witness ==
    /\ LoopDone
    /\ N = 3
    /\ records[1].country = records[3].country
    /\ records[1].country # records[2].country
    /\ records[1].date < records[2].date
    /\ records[2].date < records[3].date
    /\ Year(records[3].date) < Year(departure_date)
    /\ Get(country2days, records[1].country) =
          (records[2].date - records[1].date) + (departure_date - records[3].date)

\* C4: after create_visit_history no year's list holds a country twice, and a
\* country is in the list of year y exactly when one of its records has its
\* entry date or its departure date in year y.
C4_YearIndexExact ==
    LoopDone =>
        /\ \A y \in DOMAIN visityear2countries :
              \A a, b \in DOMAIN visityear2countries[y] :
                  a # b => visityear2countries[y][a] # visityear2countries[y][b]
        /\ \A c \in Countries, y \in 0..Year(MaxToday) :
              InYearList(c, y) <=>
                  \E j \in 1..N :
                      /\ records[j].country = c
                      /\ Year(records[j].date) = y \/ Year(Departure(j)) = y

\* C5: for records ascending by date and any current date, every visited
\* country has first_visit <= last_visit, first_visit being the entry date of
\* its first record and last_visit the departure date of its last record.
C5_FirstBeforeLast ==
    (LoopDone /\ Ascending) =>
        \A c \in RecordedCountries :
            /\ country2firstvisit[c] <= country2lastvisit[c]
            /\ \E j \in 1..N :
                  /\ records[j].country = c
                  /\ country2firstvisit[c] = records[j].date
                  /\ \A h \in 1..(j - 1) : records[h].country # c
            /\ \E j \in 1..N :
                  /\ records[j].country = c
                  /\ country2lastvisit[c] = Departure(j)
                  /\ \A h \in (j + 1)..N : records[h].country # c

\* C6: shortened_table(threshold) partitions the table: kept holds exactly the
\* countries with total >= threshold, each with its unchanged total, rest_days
\* is the sum of the totals < threshold, and kept plus rest_days is the sum of
\* all totals.
C6_ThresholdPartition ==
    pc = "shortened" =>
        LET kept == shortened.shortened_c2d
            big == {c \in Keys(country2days) : Get(country2days, c) >= threshold}
            small == {c \in Keys(country2days) : Get(country2days, c) < threshold}
        IN  /\ Keys(kept) = big
            /\ Len(kept) = Cardinality(big)
            /\ \A c \in Keys(kept) : Get(kept, c) = Get(country2days, c)
            /\ shortened.rest_days = SumOf(country2days, small)
            /\ SumOf(kept, Keys(kept)) + shortened.rest_days =
                  SumOf(country2days, Keys(country2days))

\* the shape of {A: 10, B: 3, C: 2} with threshold 7: one country kept (here
\* exactly at the threshold), two countries with positive totals in the rest
C6_Witness ==
    /\ pc = "shortened"
    /\ Len(country2days) = 3
    /\ Len(shortened.shortened_c2d) = 1
    /\ shortened.shortened_c2d[1].v = threshold
    /\ \A j \in DOMAIN country2days : country2days[j].v > 0
    /\ shortened.rest_days = SumValues(country2days) - threshold
    /\ shortened.rest_days > 0

\* C7: when the records are not ascending by date, so that some departure is
\* before its entry, the Builder reports an error: no run gets through the
\* Builder with a negative interval added to a country's total.
C7_NonAscendingRejected ==
    ~Ascending => ~(LoopDone /\ NegativeInterval)

\* C8: zero records are rejected before the derivation: construction does not
\* complete with empty tables and no later step divides by a total of zero.
C8_EmptyInputRejected ==
    N = 0 =>
        /\ ~Constructed
        /\ exception # "ZeroDivisionError"

\* C9: the current date is one snapshot per run: the departure year bucket of
\* the last record is the year of its departure date, and the residency period
\* is measured to that same date.
C9_SingleTodaySnapshot ==
    /\ (LoopDone /\ N >= 1) => depart_y = Year(departure_date)
    /\ (Constructed /\ N >= 1) =>
          residency_period = day_count(residency_begin, departure_date)

\* C10: after construction all per-country tables have the same key set, the
\* set of countries appearing in the records, and num_visited_countries is its
\* size, so every row of print_table has a percentage, a rank and both dates.
C10_TablesAgree ==
    (Constructed /\ N >= 1) =>
        /\ Keys(country2days) = RecordedCountries
        /\ DOMAIN country2percent = Keys(country2days)
        /\ DOMAIN country2rank = Keys(country2days)
        /\ DOMAIN country2firstvisit = Keys(country2days)
        /\ DOMAIN country2lastvisit = Keys(country2days)
        /\ num_visited_countries = Cardinality(Keys(country2days))
        /\ ~(pc = "output_raised" /\ exception = "KeyError")

====
